---- MODULE Spec2Model ----
(***************************************************************************)
(* The asynchronous process manager of GitResultsManager.py (the bundled   *)
(* asyncproc code): with_timeout, class Process and its background reader  *)
(* and feeder threads, as a state machine over one spawned child process.  *)
(*                                                                         *)
(* Every Python thread is a stack of frames; a frame is one activation of  *)
(* a method and its pc names the statement it is about to execute.  One    *)
(* action is one statement (or one blocking call) of the source.           *)
(***************************************************************************)
EXTENDS Integers, Sequences, FiniteSets, TLC

\* ---------------------------------------------------------------- bounds
\* Largest number of bytes the child program writes to its standard output /
\* standard error (it writes fewer when it exits or is killed earlier).
OutLen == 2
ErrLen == 1
\* Largest number of bytes one os.read() returns (65536 in the source).
MaxRead == 1
\* Number of top-level calls each caller thread makes.
MaxCalls == 2
\* Number of write() calls over one run.
MaxWrites == 2
\* Largest grace period passed to terminate().
MaxGrace == 2
\* Number of terminate() calls over one run.
MaxTerminates == 1

\* Number of processes a ProcessManager starts over one run.
MaxProcs == 2
\* Number of top-level calls made on the ProcessManager.
MaxMgrCalls == 4

\* Largest timeout passed to a nested with_timeout(), and longest sleep it
\* guards, in seconds.
MaxTimeout == 2
MaxSleep == 2

\* ------------------------------------------------------ program constants
NoneV == -1
WNOHANG == 1
SIGTERM == 15
SIGKILL == 9
ECHILD == 10
ESRCH == 3

\* The caller threads: "main" is Python's main thread (the only one that may
\* use signal.alarm), "aux" a second caller of the same Process object.
Callers == {"main", "aux"}
\* The byte chunks a caller may pass to write().
Chunks == {1, 2}
\* What kind of program the child is: "plain" may exit by itself at any time
\* (so also when it reads end-of-input) and dies of SIGTERM; "stubborn" never
\* exits by itself, not on end-of-input either, and ignores SIGTERM.
Kinds == {"plain", "stubborn"}
\* The exit codes of a child that exits by itself.
ExitCodes == {0}

VARIABLES
    \* --- construction parameters (fixed by Init)
    hasStdin, hasStdout, hasStderr, kind, outN, errN,
    \* --- the Process object
    pending_input, collected_outdata, collected_errdata,
    exitstatus, lock, inputsem, quit,
    \* --- the operating system: child process, pipes, alarm timer
    proc, childStatus, sigPend, outPipe, errPipe, outPos, errPos,
    stdinOpen, fed,
    alarm, tripped, handler, clock,
    \* --- threads
    stack, res, loc, calls,
    reader, rdata, feeder, fdata,
    \* --- history (observations the properties are stated on)
    out_taken, out_returned, err_taken, err_returned,
    written, tlog, hist,
    \* --- the ProcessManager: its fields, the child processes it started, the
    \* key list reapall() iterates over, and what it has done so far
    last_id, procs, kids, keys, mlog

cfgVars == <<hasStdin, hasStdout, hasStderr, kind, outN, errN>>
objVars == <<pending_input, collected_outdata, collected_errdata,
             exitstatus, lock, inputsem, quit>>
osVars == <<proc, childStatus, sigPend, outPipe, errPipe, outPos, errPos,
            stdinOpen, fed>>
timeVars == <<alarm, tripped, handler, clock>>
callVars == <<stack, res, loc, calls>>
bgVars == <<reader, rdata, feeder, fdata>>
histVars == <<out_taken, out_returned, err_taken, err_returned,
              written, tlog, hist>>
regVars == <<last_id, procs, kids, keys, mlog>>
vars == <<cfgVars, regVars, objVars, osVars, timeVars, callVars, bgVars, histVars>>

\* ------------------------------------------------------------ pure helpers
RECURSIVE Flatten(_)
\* "".join(list): the concatenation of a list of byte strings.
Flatten(ss) == IF ss = <<>> THEN <<>> ELSE Head(ss) \o Flatten(Tail(ss))

Min(a, b) == IF a < b THEN a ELSE b

IsPrefix(s, t) == Len(s) <= Len(t) /\ SubSeq(t, 1, Len(s)) = s

\* os.WIFEXITED / os.WIFSIGNALED on a wait status: exit code c is c * 256,
\* death by signal s is s.
WIFEXITED(st) == st % 128 = 0
WIFSIGNALED(st) == st % 128 # 0 /\ st % 128 # 127

\* The i-th byte the child writes to stdout / stderr.
OutByte(i) == i
ErrByte(i) == 10 + i

\* A dictionary (a function on a finite set of keys): empty, with an item
\* stored, with an item deleted.
EmptyMap == [k \in {} |-> 0]
MapPut(f, k, v) == [i \in DOMAIN f \cup {k} |-> IF i = k THEN v ELSE f[i]]
MapDel(f, k) == [i \in DOMAIN f \ {k} |-> f[i]]

\* ------------------------------------------------------- frames and stacks
\* One activation of a method: fn the method, pc the statement it is about
\* to execute, a its argument, v / x / y / h integer locals, e a pending
\* exception (with_timeout's finally clause), f the function with_timeout
\* is to call, followed by its arguments.
Frame(fn, pc, a) ==
    [fn |-> fn, pc |-> pc, a |-> a, v |-> NoneV, x |-> 0, y |-> 0, h |-> 0, e |-> "",
     f |-> <<>>]

NoRes == [op |-> "", kind |-> "none", exc |-> "", val |-> NoneV]

Busy(t) == stack[t] # <<>>
Top(t) == stack[t][Len(stack[t])]
Pop(stk) == SubSeq(stk, 1, Len(stk) - 1)
At(t, fn, pc) == Busy(t) /\ Top(t).fn = fn /\ Top(t).pc = pc
SetTop(stk, f) == [stk EXCEPT ![Len(stk)] = f]

\* Python runs a signal handler in the main thread, before its next
\* statement: a tripped SIGALRM is handled before the main thread goes on.
Runnable(t) == t = "main" => ~tripped

\* The top frame of t moves to statement pc.
Goto(t, pc) == stack' = [stack EXCEPT ![t] = SetTop(@, [Top(t) EXCEPT !.pc = pc])]

\* The top frame of t calls a method: it will resume at pcAfter.
Call(t, pcAfter, callee) ==
    stack' = [stack EXCEPT ![t] =
                 Append(SetTop(@, [Top(t) EXCEPT !.pc = pcAfter]), callee)]

\* The top frame of t returns val to its caller (or ends the top-level call).
Return(t, val) ==
    /\ stack' = [stack EXCEPT ![t] = Pop(@)]
    /\ res' = [res EXCEPT ![t] =
                  [op |-> Top(t).fn, kind |-> "ret", exc |-> "", val |-> val]]

\* with_timeout's statements inside the inner try (lines 419-422), whose
\* except clause turns SigAlarm into Timeout.
WtInnerTry == {"arm", "call", "store"}

RECURSIVE Unwind(_, _, _)
\* An exception exc (with errno val) propagating out of the top frame of
\* stk: frames are discarded up to the nearest enclosing handler.
\*   with_timeout, inside the inner try: its own SigAlarm (the class is local
\*     to the activation; val names the activation that installed the
\*     handler) becomes Timeout, and the finally clause runs with the
\*     exception pending (lines 423-426);
\*   with_timeout, after the inner try and before the finally clause: the
\*     finally clause runs with the exception pending;
\*   terminate, in a guarded stage: Timeout is swallowed (lines 583, 589).
Unwind(stk, exc, val) ==
    IF stk = <<>> THEN <<>>
    ELSE LET f == stk[Len(stk)] IN
         CASE f.fn = "with_timeout" /\ f.pc \in WtInnerTry ->
                SetTop(stk, [f EXCEPT !.pc = "fin_alarm0", !.v = val,
                                      !.e = IF exc = "SigAlarm" /\ val = Len(stk)
                                            THEN "Timeout" ELSE exc])
           [] f.fn = "with_timeout" /\ f.pc = "fin_enter" ->
                SetTop(stk, [f EXCEPT !.pc = "fin_alarm0", !.v = val, !.e = exc])
           [] f.fn = "terminate" /\ f.pc = "s1_ret" /\ exc = "Timeout" ->
                SetTop(stk, [f EXCEPT !.pc = "s1_timeout"])
           [] f.fn = "terminate" /\ f.pc = "s2_ret" /\ exc = "Timeout" ->
                SetTop(stk, [f EXCEPT !.pc = "s2_timeout"])
           [] OTHER -> Unwind(Pop(stk), exc, val)

\* Statement of thread t raises exc: unwinding from stack stk.
RaiseFrom(t, stk, exc, val) ==
    LET u == Unwind(stk, exc, val) IN
    /\ stack' = [stack EXCEPT ![t] = u]
    /\ res' = IF u = <<>>
              THEN [res EXCEPT ![t] = [op |-> stack[t][1].fn, kind |-> "raise",
                                       exc |-> exc, val |-> val]]
              ELSE res

Raise(t, exc, val) == RaiseFrom(t, stack[t], exc, val)

\* A top-level call of caller t has just completed.
Done(t, op) == ~Busy(t) /\ res[t].op = op
Returned(t, op) == Done(t, op) /\ res[t].kind = "ret"
Raised(t, op, exc) == Done(t, op) /\ res[t].kind = "raise" /\ res[t].exc = exc

\* A lock that never makes its caller wait.
CanAcquireBroken == TRUE

\* threading.Lock: acquire() waits until the lock is free.
CanAcquire == lock = "free"

\* A release() that leaves the lock with its holder.
AfterReleaseBroken(holder) == holder

\* threading.Lock.release() by the thread holding it: the lock after the
\* call.
AfterRelease(holder) == "free"

\* A release() that counts twice.
SemReleaseTwice(n) == n + 2

\* A release() that does not count.
SemReleaseBroken(n) == n

\* threading.Semaphore.release(): the counter after the call.
SemRelease(n) == n + 1

\* Caller t starts a top-level call.
Begin(t, f) ==
    /\ ~Busy(t)
    /\ calls[t] < MaxCalls
    /\ Runnable(t)
    /\ stack' = [stack EXCEPT ![t] = <<f>>]
    /\ res' = [res EXCEPT ![t] = NoRes]
    /\ calls' = [calls EXCEPT ![t] = @ + 1]

\* ----------------------------------------------------------- initial state
Init ==
    /\ hasStdin \in BOOLEAN /\ hasStdout \in BOOLEAN /\ hasStderr \in BOOLEAN
    /\ kind \in Kinds
    /\ outN \in 0..OutLen /\ errN \in 0..ErrLen
    /\ pending_input = <<>> /\ collected_outdata = <<>> /\ collected_errdata = <<>>
    /\ exitstatus = NoneV /\ lock = "free" /\ inputsem = 0 /\ quit = FALSE
    /\ proc = "running" /\ childStatus = NoneV /\ sigPend = {}
    /\ outPipe = <<>> /\ errPipe = <<>> /\ outPos = 0 /\ errPos = 0
    /\ stdinOpen = hasStdin /\ fed = <<>>
    /\ alarm = 0 /\ tripped = FALSE /\ handler = 0 /\ clock = 0
    /\ stack = [t \in Callers |-> <<>>]
    /\ res = [t \in Callers |-> NoRes]
    /\ loc = [t \in Callers |-> [o |-> <<>>, e |-> <<>>]]
    /\ calls = [t \in Callers |-> 0]
    /\ reader = [s \in {"out", "err"} |->
                    IF (s = "out" /\ hasStdout) \/ (s = "err" /\ hasStderr)
                    THEN "read" ELSE "off"]
    /\ rdata = [s \in {"out", "err"} |-> <<>>]
    /\ feeder = IF hasStdin THEN "sem" ELSE "off"
    /\ fdata = 0
    /\ out_taken = <<>> /\ out_returned = <<>>
    /\ err_taken = <<>> /\ err_returned = <<>>
    /\ written = <<>> /\ tlog = <<>>
    /\ hist = [waited |-> NoneV, waits |-> 0, rewait |-> FALSE, stray |-> FALSE,
               terms |-> 0, grace |-> 0, alive |-> FALSE, closes |-> 0]
    /\ last_id = 0 /\ procs = EmptyMap /\ kids = EmptyMap /\ keys = <<>>
    /\ mlog = [issued |-> <<>>, deleted |-> <<>>, sent |-> <<>>]

\* ---------------------------------------------------------- the child (OS)
\* The child writes its next byte to standard output / standard error.
ChildEmitOut ==
    /\ proc = "running" /\ hasStdout /\ outPos < outN
    /\ outPos' = outPos + 1
    /\ outPipe' = Append(outPipe, OutByte(outPos + 1))
    /\ UNCHANGED <<cfgVars, regVars, objVars, timeVars, callVars, bgVars, histVars,
                   proc, childStatus, sigPend, errPipe, errPos, stdinOpen, fed>>

ChildEmitErr ==
    /\ proc = "running" /\ hasStderr /\ errPos < errN
    /\ errPos' = errPos + 1
    /\ errPipe' = Append(errPipe, ErrByte(errPos + 1))
    /\ UNCHANGED <<cfgVars, regVars, objVars, timeVars, callVars, bgVars, histVars,
                   proc, childStatus, sigPend, outPipe, outPos, stdinOpen, fed>>

\* The child may exit by itself.
MayExit == kind = "plain"

\* The child exits and becomes a zombie until waited for.
ChildExit ==
    /\ proc = "running" /\ MayExit
    /\ \E code \in ExitCodes : childStatus' = code * 256
    /\ proc' = "zombie"
    /\ sigPend' = {}
    /\ UNCHANGED <<cfgVars, regVars, objVars, timeVars, callVars, bgVars, histVars,
                   outPipe, errPipe, outPos, errPos, stdinOpen, fed>>

\* A pending signal kills the child.
ChildSignalled ==
    /\ proc = "running"
    /\ \E s \in sigPend : childStatus' = s
    /\ proc' = "zombie"
    /\ sigPend' = {}
    /\ UNCHANGED <<cfgVars, regVars, objVars, timeVars, callVars, bgVars, histVars,
                   outPipe, errPipe, outPos, errPos, stdinOpen, fed>>

\* ------------------------------------------------------------ reader threads
Pipe(s) == IF s = "out" THEN outPipe ELSE errPipe

\* data = os.read(source.fileno(), 65536): blocks until the pipe holds
\* bytes or every writer has closed it (end of stream: the empty string).
ReaderRead(s) ==
    /\ reader[s] = "read"
    /\ \/ /\ Pipe(s) # <<>>
          /\ LET n == Min(Len(Pipe(s)), MaxRead) IN
             /\ rdata' = [rdata EXCEPT ![s] = SubSeq(Pipe(s), 1, n)]
             /\ IF s = "out"
                THEN outPipe' = SubSeq(outPipe, n + 1, Len(outPipe)) /\ errPipe' = errPipe
                ELSE errPipe' = SubSeq(errPipe, n + 1, Len(errPipe)) /\ outPipe' = outPipe
       \/ /\ Pipe(s) = <<>> /\ proc # "running"
          /\ rdata' = [rdata EXCEPT ![s] = <<>>]
          /\ UNCHANGED <<outPipe, errPipe>>
    /\ reader' = [reader EXCEPT ![s] = "acq"]
    /\ UNCHANGED <<cfgVars, regVars, objVars, timeVars, callVars, histVars, feeder, fdata,
                   proc, childStatus, sigPend, outPos, errPos, stdinOpen, fed>>

\* self._lock.acquire()
ReaderAcquire(s) ==
    /\ reader[s] = "acq" /\ CanAcquire
    /\ lock' = s
    /\ reader' = [reader EXCEPT ![s] = "append"]
    /\ UNCHANGED <<cfgVars, regVars, osVars, timeVars, callVars, histVars, rdata, feeder, fdata,
                   pending_input, collected_outdata, collected_errdata,
                   exitstatus, inputsem, quit>>

\* collector.append(data); self._lock.release();
\* if data == "": source.close(); break
ReaderAppend(s) ==
    /\ reader[s] = "append"
    /\ IF s = "out"
       THEN /\ collected_outdata' = Append(collected_outdata, rdata[s])
            /\ UNCHANGED collected_errdata
       ELSE /\ collected_errdata' = Append(collected_errdata, rdata[s])
            /\ UNCHANGED collected_outdata
    /\ lock' = AfterRelease(s)
    /\ reader' = [reader EXCEPT ![s] = IF rdata[s] = <<>> THEN "done" ELSE "read"]
    /\ rdata' = [rdata EXCEPT ![s] = <<>>]
    /\ UNCHANGED <<cfgVars, regVars, osVars, timeVars, callVars, histVars, feeder, fdata,
                   pending_input, exitstatus, inputsem, quit>>

Reader(s) == ReaderRead(s) \/ ReaderAcquire(s) \/ ReaderAppend(s)

\* ------------------------------------------------------------- feeder thread
\* self._inputsem.acquire()
FeederSem ==
    /\ feeder = "sem" /\ inputsem > 0
    /\ inputsem' = inputsem - 1
    /\ feeder' = "acq"
    /\ UNCHANGED <<cfgVars, regVars, osVars, timeVars, callVars, histVars, reader, rdata, fdata,
                   pending_input, collected_outdata, collected_errdata,
                   exitstatus, lock, quit>>

\* self._lock.acquire()
FeederAcquire ==
    /\ feeder = "acq" /\ CanAcquire
    /\ lock' = "feed"
    /\ feeder' = "chk"
    /\ UNCHANGED <<cfgVars, regVars, osVars, timeVars, callVars, histVars, reader, rdata, fdata,
                   pending_input, collected_outdata, collected_errdata,
                   exitstatus, inputsem, quit>>

\* The test without its "not pending" half.
FeederQuitsBroken == quit

\* The feeder's test "not pending and self._quit".
FeederQuits == pending_input = <<>> /\ quit

\* if not pending and self._quit: drain.close(); self._lock.release(); break
\* data = pending.pop(0); self._lock.release()
\* (pop(0) of an empty list raises IndexError: the thread dies, lock held).
FeederCheck ==
    /\ feeder = "chk"
    /\ IF FeederQuits
       THEN /\ stdinOpen' = FALSE
            /\ feeder' = "done"
            /\ lock' = AfterRelease("feed")
            /\ UNCHANGED <<pending_input, fdata>>
       ELSE IF pending_input = <<>>
       THEN /\ feeder' = "crashed"
            /\ UNCHANGED <<pending_input, fdata, stdinOpen, lock>>
       ELSE /\ fdata' = Head(pending_input)
            /\ pending_input' = Tail(pending_input)
            /\ feeder' = "write"
            /\ lock' = AfterRelease("feed")
            /\ UNCHANGED stdinOpen
    /\ UNCHANGED <<cfgVars, regVars, timeVars, callVars, histVars, reader, rdata,
                   collected_outdata, collected_errdata, exitstatus, inputsem, quit,
                   proc, childStatus, sigPend, outPipe, errPipe, outPos, errPos, fed>>

\* drain.write(data): the chunk goes to the child's input; writing to the
\* pipe of a child that has exited raises IOError (EPIPE) and ends the thread.
FeederWrite ==
    /\ feeder = "write"
    /\ IF proc = "running"
       THEN fed' = Append(fed, fdata) /\ feeder' = "sem" /\ fdata' = 0
       ELSE fed' = fed /\ feeder' = "crashed" /\ fdata' = fdata
    /\ UNCHANGED <<cfgVars, regVars, objVars, timeVars, callVars, histVars, reader, rdata,
                   proc, childStatus, sigPend, outPipe, errPipe, outPos, errPos, stdinOpen>>

\* The feeder's steps apart from its write to the child.
FeederIdle == FeederSem \/ FeederAcquire \/ FeederCheck

Feeder == FeederIdle \/ FeederWrite

\* ------------------------------------------------ read / readerr / readboth
ReadFns == {"read", "readerr", "readboth"}
InRead(t, pc) == Busy(t) /\ Top(t).fn \in ReadFns /\ Top(t).pc = pc /\ Runnable(t)

StartRead(t, fn) ==
    /\ Begin(t, Frame(fn, "acq", 0))
    /\ UNCHANGED <<cfgVars, regVars, objVars, osVars, bgVars, histVars, loc,
                   alarm, tripped, handler, clock>>

\* self._lock.acquire()
ReadAcquire(t) ==
    /\ InRead(t, "acq") /\ CanAcquire
    /\ lock' = t
    /\ Goto(t, IF Top(t).fn = "readerr" THEN "join_e" ELSE "join_o")
    /\ UNCHANGED <<cfgVars, regVars, osVars, timeVars, bgVars, histVars, res, loc, calls,
                   pending_input, collected_outdata, collected_errdata,
                   exitstatus, inputsem, quit>>

\* outdata = "".join(self._collected_outdata)
ReadJoinOut(t) ==
    /\ InRead(t, "join_o")
    /\ loc' = [loc EXCEPT ![t].o = Flatten(collected_outdata)]
    /\ Goto(t, "del_o")
    /\ UNCHANGED <<cfgVars, regVars, objVars, osVars, timeVars, bgVars, histVars, res, calls>>

\* del self._collected_outdata[:]
ReadDelOut(t) ==
    /\ InRead(t, "del_o")
    /\ collected_outdata' = <<>>
    /\ out_taken' = out_taken \o loc[t].o
    /\ Goto(t, IF Top(t).fn = "readboth" THEN "join_e" ELSE "rel")
    /\ UNCHANGED <<cfgVars, regVars, osVars, timeVars, bgVars, res, loc, calls,
                   pending_input, collected_errdata, exitstatus, lock, inputsem, quit,
                   out_returned, err_taken, err_returned, written, tlog, hist>>

\* errdata = "".join(self._collected_errdata)
ReadJoinErr(t) ==
    /\ InRead(t, "join_e")
    /\ loc' = [loc EXCEPT ![t].e = Flatten(collected_errdata)]
    /\ Goto(t, "del_e")
    /\ UNCHANGED <<cfgVars, regVars, objVars, osVars, timeVars, bgVars, histVars, res, calls>>

\* del self._collected_errdata[:]
ReadDelErr(t) ==
    /\ InRead(t, "del_e")
    /\ collected_errdata' = <<>>
    /\ err_taken' = err_taken \o loc[t].e
    /\ Goto(t, "rel")
    /\ UNCHANGED <<cfgVars, regVars, osVars, timeVars, bgVars, res, loc, calls,
                   pending_input, collected_outdata, exitstatus, lock, inputsem, quit,
                   out_taken, out_returned, err_returned, written, tlog, hist>>

\* self._lock.release()
ReadRelease(t) ==
    /\ InRead(t, "rel")
    /\ lock' = "free"
    /\ Goto(t, "ret")
    /\ UNCHANGED <<cfgVars, regVars, osVars, timeVars, bgVars, histVars, res, loc, calls,
                   pending_input, collected_outdata, collected_errdata,
                   exitstatus, inputsem, quit>>

\* return outdata / errdata / outdata,errdata
ReadReturn(t) ==
    /\ InRead(t, "ret")
    /\ out_returned' = out_returned \o loc[t].o
    /\ err_returned' = err_returned \o loc[t].e
    /\ loc' = [loc EXCEPT ![t] = [o |-> <<>>, e |-> <<>>]]
    /\ Return(t, 0)
    /\ UNCHANGED <<cfgVars, regVars, objVars, osVars, timeVars, bgVars, calls,
                   out_taken, err_taken, written, tlog, hist>>

ReadStep(t) ==
    \/ ReadAcquire(t) \/ ReadJoinOut(t) \/ ReadDelOut(t) \/ ReadJoinErr(t)
    \/ ReadDelErr(t) \/ ReadRelease(t) \/ ReadReturn(t)

\* -------------------------------------------------------------------- write
StartWrite(t, data) ==
    /\ Len(written) < MaxWrites
    /\ Begin(t, Frame("write", "chk", data))
    /\ written' = Append(written, data)
    /\ UNCHANGED <<cfgVars, regVars, objVars, osVars, bgVars, loc,
                   alarm, tripped, handler, clock,
                   out_taken, out_returned, err_taken, err_returned, tlog, hist>>

\* write() without its test.
WriteAllowedBroken == TRUE

\* write()'s test that the process has an input pipe.
WriteAllowed == hasStdin

\* if self._process.stdin is None: raise ValueError(...)
WriteCheck(t) ==
    /\ At(t, "write", "chk") /\ Runnable(t)
    /\ IF WriteAllowed THEN Goto(t, "acq") /\ res' = res
                   ELSE Raise(t, "ValueError", 0)
    /\ UNCHANGED <<cfgVars, regVars, objVars, osVars, timeVars, bgVars, histVars, loc, calls>>

\* self._lock.acquire()
WriteAcquire(t) ==
    /\ At(t, "write", "acq") /\ Runnable(t) /\ CanAcquire
    /\ lock' = t
    /\ Goto(t, "append")
    /\ UNCHANGED <<cfgVars, regVars, osVars, timeVars, bgVars, histVars, res, loc, calls,
                   pending_input, collected_outdata, collected_errdata,
                   exitstatus, inputsem, quit>>

\* self._pending_input.append(data)
WriteAppend(t) ==
    /\ At(t, "write", "append") /\ Runnable(t)
    /\ pending_input' = Append(pending_input, Top(t).a)
    /\ Goto(t, "sem")
    /\ UNCHANGED <<cfgVars, regVars, osVars, timeVars, bgVars, histVars, res, loc, calls,
                   collected_outdata, collected_errdata, exitstatus, lock, inputsem, quit>>

\* self._inputsem.release()
WriteSem(t) ==
    /\ At(t, "write", "sem") /\ Runnable(t)
    /\ inputsem' = SemRelease(inputsem)
    /\ Goto(t, "rel")
    /\ UNCHANGED <<cfgVars, regVars, osVars, timeVars, bgVars, histVars, res, loc, calls,
                   pending_input, collected_outdata, collected_errdata,
                   exitstatus, lock, quit>>

\* self._lock.release(), and write() returns None
WriteRelease(t) ==
    /\ At(t, "write", "rel") /\ Runnable(t)
    /\ lock' = "free"
    /\ Return(t, NoneV)
    /\ UNCHANGED <<cfgVars, regVars, osVars, timeVars, bgVars, histVars, loc, calls,
                   pending_input, collected_outdata, collected_errdata,
                   exitstatus, inputsem, quit>>

WriteStep(t) ==
    WriteCheck(t) \/ WriteAcquire(t) \/ WriteAppend(t) \/ WriteSem(t) \/ WriteRelease(t)

\* --------------------------------------------------------------- closeinput
StartCloseinput(t) ==
    /\ Begin(t, Frame("closeinput", "acq", 0))
    /\ UNCHANGED <<cfgVars, regVars, objVars, osVars, bgVars, histVars, loc,
                   alarm, tripped, handler, clock>>

\* self._lock.acquire()
CloseAcquire(t) ==
    /\ At(t, "closeinput", "acq") /\ Runnable(t) /\ CanAcquire
    /\ lock' = t
    /\ Goto(t, "quit")
    /\ UNCHANGED <<cfgVars, regVars, osVars, timeVars, bgVars, histVars, res, loc, calls,
                   pending_input, collected_outdata, collected_errdata,
                   exitstatus, inputsem, quit>>

\* self._quit = True
CloseQuit(t) ==
    /\ At(t, "closeinput", "quit") /\ Runnable(t)
    /\ quit' = TRUE
    /\ Goto(t, "sem")
    /\ UNCHANGED <<cfgVars, regVars, osVars, timeVars, bgVars, histVars, res, loc, calls,
                   pending_input, collected_outdata, collected_errdata,
                   exitstatus, lock, inputsem>>

\* self._inputsem.release()
CloseSem(t) ==
    /\ At(t, "closeinput", "sem") /\ Runnable(t)
    /\ inputsem' = SemRelease(inputsem)
    /\ hist' = [hist EXCEPT !.closes = @ + 1]
    /\ Goto(t, "rel")
    /\ UNCHANGED <<cfgVars, regVars, osVars, timeVars, bgVars, res, loc, calls,
                   pending_input, collected_outdata, collected_errdata,
                   exitstatus, lock, quit,
                   out_taken, out_returned, err_taken, err_returned, written, tlog>>

\* self._lock.release(), and closeinput() returns None
CloseRelease(t) ==
    /\ At(t, "closeinput", "rel") /\ Runnable(t)
    /\ lock' = "free"
    /\ Return(t, NoneV)
    /\ UNCHANGED <<cfgVars, regVars, osVars, timeVars, bgVars, histVars, loc, calls,
                   pending_input, collected_outdata, collected_errdata,
                   exitstatus, inputsem, quit>>

CloseStep(t) == CloseAcquire(t) \/ CloseQuit(t) \/ CloseSem(t) \/ CloseRelease(t)

\* --------------------------------------------------------------------- kill
StartKill(t, sig) ==
    /\ Begin(t, Frame("kill", "chk", sig))
    /\ UNCHANGED <<cfgVars, regVars, objVars, osVars, bgVars, histVars, loc,
                   alarm, tripped, handler, clock>>

\* kill()'s test "self._exitstatus is not None"
KillKnown == exitstatus # NoneV

\* if self._exitstatus is not None: raise OSError(errno.ECHILD, ...)
KillCheck(t) ==
    /\ At(t, "kill", "chk") /\ Runnable(t)
    /\ IF KillKnown THEN Raise(t, "OSError", ECHILD)
                    ELSE Goto(t, "oskill") /\ res' = res
    /\ UNCHANGED <<cfgVars, regVars, objVars, osVars, timeVars, bgVars, histVars, loc, calls>>

\* The child has SIGTERM set to be ignored.
Ignored(sig) == sig = SIGTERM /\ kind = "stubborn"

\* The signals pending on the child after the OS has accepted signal sig.
Delivered(sig) ==
    IF proc = "running" /\ ~Ignored(sig) THEN sigPend \cup {sig} ELSE sigPend

\* The event a signal sent by terminate() leaves in its log.
SigEvent(sig) == IF sig = SIGTERM THEN "term" ELSE "kill"
LogIfTerminate(t, ev) ==
    tlog' = IF stack[t][1].fn = "terminate" THEN Append(tlog, ev) ELSE tlog

\* os.kill(self.pid(), signal).  While the exit record is uncollected the pid
\* names the child (a zombie takes the signal without effect).  Once it is
\* collected the pid is free: os.kill fails with ESRCH, or, the pid having
\* been given to another process, signals that process.
KillOs(t) ==
    /\ At(t, "kill", "oskill") /\ Runnable(t)
    /\ \/ /\ proc # "reaped"
          /\ sigPend' = Delivered(Top(t).a)
          /\ Return(t, NoneV)
          /\ LogIfTerminate(t, SigEvent(Top(t).a))
          /\ hist' = hist
       \/ /\ proc = "reaped"
          /\ Raise(t, "OSError", ESRCH)
          /\ UNCHANGED <<sigPend, tlog, hist>>
       \/ /\ proc = "reaped"
          /\ hist' = [hist EXCEPT !.stray = TRUE]
          /\ Return(t, NoneV)
          /\ LogIfTerminate(t, SigEvent(Top(t).a))
          /\ sigPend' = sigPend
    /\ UNCHANGED <<cfgVars, regVars, objVars, timeVars, bgVars, loc, calls,
                   proc, childStatus, outPipe, errPipe, outPos, errPos, stdinOpen, fed,
                   out_taken, out_returned, err_taken, err_returned, written>>

KillStep(t) == KillCheck(t) \/ KillOs(t)

\* --------------------------------------------------------------------- wait
StartWait(t, flags) ==
    /\ Begin(t, Frame("wait", "chk", flags))
    /\ UNCHANGED <<cfgVars, regVars, objVars, osVars, bgVars, histVars, loc,
                   alarm, tripped, handler, clock>>

\* The test written "if self._exitstatus:" (status 0 counts as absent).
WaitCachedBroken == exitstatus # NoneV /\ exitstatus # 0

\* wait()'s test "self._exitstatus is not None"
WaitCached == exitstatus # NoneV

\* A wait() call hands status st to its caller: the first exit status any
\* wait() call returned is remembered, and the calls that returned one are
\* counted.
NoteWaited(st) ==
    IF st # NoneV /\ (WIFEXITED(st) \/ WIFSIGNALED(st))
    THEN [hist EXCEPT !.waited = IF @ = NoneV THEN st ELSE @,
                      !.waits = Min(@ + 1, MaxCalls + 1)]
    ELSE hist

\* if self._exitstatus is not None: return self._exitstatus
WaitCheck(t) ==
    /\ At(t, "wait", "chk") /\ Runnable(t)
    /\ IF WaitCached
       THEN Return(t, exitstatus) /\ hist' = NoteWaited(exitstatus)
       ELSE Goto(t, "waitpid") /\ res' = res /\ hist' = hist
    /\ UNCHANGED <<cfgVars, regVars, objVars, osVars, timeVars, bgVars, loc, calls,
                   out_taken, out_returned, err_taken, err_returned, written, tlog>>

\* pid,exitstatus = os.waitpid(self.pid(), flags): collects the exit record
\* of a child that has exited; a record already collected is gone (ECHILD);
\* for a running child it returns (0, 0) under WNOHANG and blocks otherwise.
WaitPid(t) ==
    /\ At(t, "wait", "waitpid") /\ Runnable(t)
    /\ \/ /\ proc = "zombie"
          /\ proc' = "reaped"
          /\ stack' = [stack EXCEPT ![t] =
                          SetTop(@, [Top(t) EXCEPT !.pc = "pidchk", !.x = 1, !.v = childStatus])]
          /\ res' = res
       \/ /\ proc = "running" /\ Top(t).a = WNOHANG
          /\ proc' = proc
          /\ stack' = [stack EXCEPT ![t] =
                          SetTop(@, [Top(t) EXCEPT !.pc = "pidchk", !.x = 0, !.v = 0])]
          /\ res' = res
       \/ /\ proc = "reaped"
          /\ proc' = proc
          /\ Raise(t, "OSError", ECHILD)
    /\ hist' = [hist EXCEPT !.rewait = @ \/ hist.waited # NoneV]
    /\ UNCHANGED <<cfgVars, regVars, objVars, timeVars, bgVars, loc, calls,
                   childStatus, sigPend, outPipe, errPipe, outPos, errPos, stdinOpen, fed,
                   out_taken, out_returned, err_taken, err_returned, written, tlog>>

\* The test without effect: the call goes on as if the child had exited.
StillRunningBroken(pid) == FALSE

\* wait()'s test "pid == 0": os.waitpid found the child still running.
StillRunning(pid) == pid = 0

\* if pid == 0: return None
WaitPidCheck(t) ==
    /\ At(t, "wait", "pidchk") /\ Runnable(t)
    /\ IF StillRunning(Top(t).x) THEN Return(t, NoneV) ELSE Goto(t, "wif") /\ res' = res
    /\ UNCHANGED <<cfgVars, regVars, objVars, osVars, timeVars, bgVars, histVars, loc, calls>>

\* if os.WIFEXITED(exitstatus) or os.WIFSIGNALED(exitstatus):
\*     self._exitstatus = exitstatus
WaitCache(t) ==
    /\ At(t, "wait", "wif") /\ Runnable(t)
    /\ IF WIFEXITED(Top(t).v) \/ WIFSIGNALED(Top(t).v)
       THEN exitstatus' = Top(t).v /\ Goto(t, "stdin")
       ELSE exitstatus' = exitstatus /\ Goto(t, "ret")
    /\ UNCHANGED <<cfgVars, regVars, osVars, timeVars, bgVars, histVars, res, loc, calls,
                   pending_input, collected_outdata, collected_errdata,
                   lock, inputsem, quit>>

\* if self._process.stdin: self.closeinput()
WaitCloseinput(t) ==
    /\ At(t, "wait", "stdin") /\ Runnable(t)
    /\ IF hasStdin THEN Call(t, "join_o", Frame("closeinput", "acq", 0))
                   ELSE Goto(t, "join_o")
    /\ UNCHANGED <<cfgVars, regVars, objVars, osVars, timeVars, bgVars, histVars, res, loc, calls>>

\* Thread.join() returns once the reader thread has ended.
Joined(s) == reader[s] = "done"

\* if self._process.stdout: self._stdout_thread.join()
WaitJoinOut(t) ==
    /\ At(t, "wait", "join_o") /\ Runnable(t)
    /\ hasStdout => Joined("out")
    /\ Goto(t, "join_e")
    /\ UNCHANGED <<cfgVars, regVars, objVars, osVars, timeVars, bgVars, histVars, res, loc, calls>>

\* if self._process.stderr: self._stderr_thread.join()
WaitJoinErr(t) ==
    /\ At(t, "wait", "join_e") /\ Runnable(t)
    /\ hasStderr => Joined("err")
    /\ Goto(t, "ret")
    /\ UNCHANGED <<cfgVars, regVars, objVars, osVars, timeVars, bgVars, histVars, res, loc, calls>>

\* return exitstatus
WaitReturn(t) ==
    /\ At(t, "wait", "ret") /\ Runnable(t)
    /\ Return(t, Top(t).v)
    /\ hist' = NoteWaited(Top(t).v)
    /\ UNCHANGED <<cfgVars, regVars, objVars, osVars, timeVars, bgVars, loc, calls,
                   out_taken, out_returned, err_taken, err_returned, written, tlog>>

WaitStep(t) ==
    \/ WaitCheck(t) \/ WaitPid(t) \/ WaitPidCheck(t) \/ WaitCache(t)
    \/ WaitCloseinput(t) \/ WaitJoinOut(t) \/ WaitJoinErr(t) \/ WaitReturn(t)

\* ------------------------------------------------------------- with_timeout
\* Frame locals: a the timeout, x oldalarm, h oldhandler, y t0, v retval (or
\* the errno of the pending exception e).  Only the main thread may use
\* signal.alarm / signal.signal.
WtAt(pc) == At("main", "with_timeout", pc) /\ Runnable("main")
WtSet(f) == stack' = [stack EXCEPT !["main"] = SetTop(@, f)]

\* oldalarm = signal.alarm(0)
\* oldhandler = signal.signal(signal.SIGALRM, alarm_handler): the handler is
\*     named by the position of the activation that installed it
\* t0 = time.time()
WtEnter ==
    /\ WtAt("enter")
    /\ WtSet([Top("main") EXCEPT !.pc = "arm", !.x = alarm, !.h = handler, !.y = clock])
    /\ alarm' = 0
    /\ handler' = Len(stack["main"])
    /\ UNCHANGED <<cfgVars, regVars, objVars, osVars, bgVars, histVars, res, loc, calls,
                   tripped, clock>>

\* The alarm armed one second late.
ArmWithBroken(timeout) == timeout + 1

\* The number of seconds with_timeout arms the alarm with: signal.alarm(timeout).
ArmWith(timeout) == timeout

\* signal.alarm(timeout)
WtArm ==
    /\ WtAt("arm")
    /\ alarm' = ArmWith(Top("main").a)
    /\ Goto("main", "call")
    /\ UNCHANGED <<cfgVars, regVars, objVars, osVars, bgVars, histVars, res, loc, calls,
                   tripped, handler, clock>>

\* The activation of func(*args): Process.wait, time.sleep(seconds), or
\* with_timeout(timeout, func2, *args2) itself.
Callee(f) ==
    CASE Head(f) = "wait" -> Frame("wait", "chk", 0)
      [] Head(f) = "sleep" -> [Frame("sleep", "run", f[2]) EXCEPT !.y = clock]
      [] Head(f) = "with_timeout" ->
            [Frame("with_timeout", "enter", f[2]) EXCEPT !.f = Tail(Tail(f))]

\* retval = func(*args, **kwargs)
WtCall ==
    /\ WtAt("call")
    /\ Call("main", "store", Callee(Top("main").f))
    /\ UNCHANGED <<cfgVars, regVars, objVars, osVars, timeVars, bgVars, histVars, res, loc, calls>>

\* ... the call has returned: retval is assigned
WtStore ==
    /\ WtAt("store")
    /\ WtSet([Top("main") EXCEPT !.pc = "fin_enter", !.v = res["main"].val])
    /\ UNCHANGED <<cfgVars, regVars, objVars, osVars, timeVars, bgVars, histVars, res, loc, calls>>

\* Control leaves the try blocks and enters the finally clause.
WtFinEnter ==
    /\ WtAt("fin_enter")
    /\ Goto("main", "fin_alarm0")
    /\ UNCHANGED <<cfgVars, regVars, objVars, osVars, timeVars, bgVars, histVars, res, loc, calls>>

\* finally: signal.alarm(0)
WtFinAlarm0 ==
    /\ WtAt("fin_alarm0")
    /\ alarm' = 0
    /\ Goto("main", "fin_restore")
    /\ UNCHANGED <<cfgVars, regVars, objVars, osVars, bgVars, histVars, res, loc, calls,
                   tripped, handler, clock>>

\* signal.signal(signal.SIGALRM, oldhandler)
\* if oldalarm != 0: remaining = oldalarm - int(t1 - t0 + 0.5); the old alarm
\* is raised at once (os.kill(os.getpid(), SIGALRM)) or armed again.
WtFinRestore ==
    /\ WtAt("fin_restore")
    /\ handler' = Top("main").h
    /\ LET f == Top("main")
           remaining == f.x - (clock - f.y) IN
       IF f.x = 0 THEN UNCHANGED <<alarm, tripped>>
       ELSE IF remaining <= 0 THEN tripped' = TRUE /\ alarm' = alarm
       ELSE alarm' = remaining /\ tripped' = tripped
    /\ Goto("main", "fin_end")
    /\ UNCHANGED <<cfgVars, regVars, objVars, osVars, bgVars, histVars, res, loc, calls, clock>>

\* The finally clause is over: the pending exception goes on propagating,
\* or with_timeout returns retval.
WtFinEnd ==
    /\ WtAt("fin_end")
    /\ IF Top("main").e # ""
       THEN RaiseFrom("main", Pop(stack["main"]), Top("main").e, Top("main").v)
       ELSE Return("main", Top("main").v)
    /\ UNCHANGED <<cfgVars, regVars, objVars, osVars, timeVars, bgVars, histVars, loc, calls>>

WtStep ==
    \/ WtEnter \/ WtArm \/ WtCall \/ WtStore
    \/ WtFinEnter \/ WtFinAlarm0 \/ WtFinRestore \/ WtFinEnd

\* time.sleep(seconds) returns once that many seconds have passed.
SleepRun ==
    /\ At("main", "sleep", "run") /\ Runnable("main")
    /\ clock - Top("main").y >= Top("main").a
    /\ Return("main", NoneV)
    /\ UNCHANGED <<cfgVars, regVars, objVars, osVars, timeVars, bgVars, histVars, loc, calls>>

\* with_timeout(t1, with_timeout, t2, time.sleep, d): the nested use the
\* documentation of with_timeout describes (lines 400-405).
StartNested(t1, t2, d) ==
    /\ Begin("main", [Frame("with_timeout", "enter", t1) EXCEPT
                         !.f = <<"with_timeout", t2, "sleep", d>>])
    /\ UNCHANGED <<cfgVars, regVars, objVars, osVars, timeVars, bgVars, histVars, loc>>

\* A second passes while the alarm is armed; the alarm expires when its
\* last second has passed (SIGALRM is then pending on the main thread).
Tick ==
    /\ alarm > 0 /\ ~tripped
    /\ alarm' = alarm - 1
    /\ clock' = clock + 1
    /\ tripped' = (alarm = 1)
    /\ UNCHANGED <<cfgVars, regVars, objVars, osVars, callVars, bgVars, histVars, handler>>

\* alarm_handler runs in the main thread, wherever that thread is (a blocking
\* system call is interrupted), and raises SigAlarm there (lines 413-414).
AlarmDeliver ==
    /\ tripped /\ Busy("main") /\ handler # 0
    /\ tripped' = FALSE
    /\ Raise("main", "SigAlarm", handler)
    /\ UNCHANGED <<cfgVars, regVars, objVars, osVars, bgVars, histVars, loc, calls,
                   alarm, handler, clock>>

\* ---------------------------------------------------------------- terminate
TmAt(pc) == At("main", "terminate", pc) /\ Runnable("main")
Log(ev) == tlog' = Append(tlog, ev)

StartTerminate(g) ==
    /\ hist.terms < MaxTerminates
    /\ Begin("main", Frame("terminate", "s1", g))
    /\ tlog' = <<>>
    /\ clock' = 0
    /\ hist' = [hist EXCEPT !.terms = @ + 1, !.grace = g,
                             !.alive = (proc = "running" /\ SIGKILL \notin sigPend)]
    /\ UNCHANGED <<cfgVars, regVars, objVars, osVars, bgVars, loc, alarm, tripped, handler,
                   out_taken, out_returned, err_taken, err_returned, written>>

\* if self._process.stdin: self.closeinput()
TermStage1 ==
    /\ TmAt("s1")
    /\ IF hasStdin
       THEN Call("main", "s1_guard", Frame("closeinput", "acq", 0)) /\ Log("close")
       ELSE Goto("main", "s2_kill") /\ tlog' = tlog
    /\ UNCHANGED <<cfgVars, regVars, objVars, osVars, timeVars, bgVars, res, loc, calls,
                   out_taken, out_returned, err_taken, err_returned, written, hist>>

\* The statement a guarded stage resumes at when its with_timeout returns.
GuardRet(pc) == IF pc = "s1_guard" THEN "s1_ret" ELSE "s2_ret"

\* try: return with_timeout(graceperiod, self.wait)
TermGuard ==
    /\ TmAt("s1_guard") \/ TmAt("s2_guard")
    /\ Call("main", GuardRet(Top("main").pc),
            [Frame("with_timeout", "enter", Top("main").a) EXCEPT !.f = <<"wait">>])
    /\ Log("guard")
    /\ UNCHANGED <<cfgVars, regVars, objVars, osVars, timeVars, bgVars, res, loc, calls,
                   out_taken, out_returned, err_taken, err_returned, written, hist>>

\* return <the status the stage's wait gave>
TermReturn ==
    /\ TmAt("s1_ret") \/ TmAt("s2_ret") \/ TmAt("s3_ret")
    /\ Return("main", res["main"].val)
    /\ UNCHANGED <<cfgVars, regVars, objVars, osVars, timeVars, bgVars, histVars, loc, calls>>

\* The stage that follows a guarded stage that timed out.
AfterTimeout(pc) == IF pc = "s1_timeout" THEN "s2_kill" ELSE "s3_kill"

\* except Timeout: pass
TermTimeout ==
    /\ TmAt("s1_timeout") \/ TmAt("s2_timeout")
    /\ Goto("main", AfterTimeout(Top("main").pc))
    /\ Log("timeout")
    /\ UNCHANGED <<cfgVars, regVars, objVars, osVars, timeVars, bgVars, res, loc, calls,
                   out_taken, out_returned, err_taken, err_returned, written, hist>>

\* Both stages sending SIGKILL.
StageSignalBroken(pc) == SIGKILL

\* The signal a stage sends: SIGTERM in stage 2, SIGKILL in stage 3.
StageSignal(pc) == IF pc = "s2_kill" THEN SIGTERM ELSE SIGKILL

\* self.kill(signal.SIGTERM) / self.kill(signal.SIGKILL)
TermKill ==
    /\ TmAt("s2_kill") \/ TmAt("s3_kill")
    /\ Call("main", IF Top("main").pc = "s2_kill" THEN "s2_guard" ELSE "s3_wait",
            Frame("kill", "chk", StageSignal(Top("main").pc)))
    /\ UNCHANGED <<cfgVars, regVars, objVars, osVars, timeVars, bgVars, histVars, res, loc, calls>>

\* return self.wait()
TermWait ==
    /\ TmAt("s3_wait")
    /\ Call("main", "s3_ret", Frame("wait", "chk", 0))
    /\ Log("wait")
    /\ UNCHANGED <<cfgVars, regVars, objVars, osVars, timeVars, bgVars, res, loc, calls,
                   out_taken, out_returned, err_taken, err_returned, written, hist>>

TermStep ==
    TermStage1 \/ TermGuard \/ TermReturn \/ TermTimeout \/ TermKill \/ TermWait

\* ----------------------------------------------------------- ProcessManager
\* The manager is used by one thread ("main").  Frame locals of its methods:
\* a the process id, x the second argument (flags or signal).  The method
\* of a tracked Process the call is forwarded to runs on the entry
\* procs[a] (the object's _exitstatus) and on the child kids[a] (st its OS
\* state, status its wait status once dead, pend the signals pending on it).
MgrOps == {"m_kill", "m_terminate", "m_write", "m_closeinput",
           "m_read", "m_readerr", "m_readboth", "m_wait"}

\* The Process method a ProcessManager method forwards to, and its first
\* statement.
Target(fn) ==
    CASE fn = "m_kill" -> "p_kill"
      [] fn = "m_wait" -> "p_wait"
      [] fn = "m_terminate" -> "p_terminate"
      [] OTHER -> "p_data"

\* The ids a caller may pass: those start() can issue and one it never does.
Ids == 1..(MaxProcs + 1)

MgrAt(fn, pc) == At("main", fn, pc)
MgrFrame(fn, pc, id, arg) == [Frame(fn, pc, id) EXCEPT !.x = arg]

\* The caller starts a top-level call on the manager.
MgrBegin(f) ==
    /\ ~Busy("main")
    /\ calls["main"] < MaxMgrCalls
    /\ stack' = [stack EXCEPT !["main"] = <<f>>]
    /\ res' = [res EXCEPT !["main"] = NoRes]
    /\ calls' = [calls EXCEPT !["main"] = @ + 1]
    /\ UNCHANGED <<cfgVars, regVars, objVars, osVars, timeVars, bgVars, histVars, loc>>

MgrStart == last_id < MaxProcs /\ MgrBegin(Frame("start", "popen", 0))
MgrCall(fn, id, arg) == MgrBegin(MgrFrame(fn, "lookup", id, arg))
MgrReap(id) == MgrBegin(Frame("reap", "poll", id))
MgrReapall == MgrBegin(Frame("reapall", "keys", 0))

\* An id taken from the number of tracked processes.
NextIdBroken(n) == Cardinality(DOMAIN procs) + 1

\* The id start() gives the process it starts: self.__last_id += 1
NextId(n) == n + 1

\* proc = Process(args=args, ...): the child is spawned (it is the next one
\* to be registered), or subprocess.Popen fails with OSError.
StartPopen ==
    /\ MgrAt("start", "popen")
    /\ \/ /\ kids' = MapPut(kids, NextId(last_id),
                            [st |-> "running", status |-> NoneV, pend |-> {}])
          /\ Goto("main", "incr") /\ res' = res
       \/ /\ Raise("main", "OSError", 0)
          /\ kids' = kids
    /\ UNCHANGED <<cfgVars, objVars, osVars, timeVars, bgVars, histVars, loc, calls,
                   last_id, procs, keys, mlog>>

\* self.__last_id += 1
StartIncr ==
    /\ MgrAt("start", "incr")
    /\ last_id' = NextId(last_id)
    /\ Goto("main", "store")
    /\ UNCHANGED <<cfgVars, objVars, osVars, timeVars, bgVars, histVars, res, loc, calls,
                   procs, kids, keys, mlog>>

\* self.__procs[self.__last_id] = proc
StartStore ==
    /\ MgrAt("start", "store")
    /\ procs' = MapPut(procs, last_id, [exitstatus |-> NoneV])
    /\ Goto("main", "ret")
    /\ UNCHANGED <<cfgVars, objVars, osVars, timeVars, bgVars, histVars, res, loc, calls,
                   last_id, kids, keys, mlog>>

\* return self.__last_id
StartReturn ==
    /\ MgrAt("start", "ret")
    /\ Return("main", last_id)
    /\ mlog' = [mlog EXCEPT !.issued = Append(@, last_id)]
    /\ UNCHANGED <<cfgVars, objVars, osVars, timeVars, bgVars, histVars, loc, calls,
                   last_id, procs, kids, keys>>

StartStep == StartPopen \/ StartIncr \/ StartStore \/ StartReturn

\* A lookup that finds every id issued so far.
TrackedBroken(id) == id \in DOMAIN kids

\* The dictionary lookup self.__procs[procid] finds an entry.
Tracked(id) == id \in DOMAIN procs

\* return self.__procs[procid].<method>(...): the lookup raises KeyError for
\* an id that is not a key, otherwise the method of the entry is called.
FwdLookup ==
    /\ Busy("main") /\ Top("main").fn \in MgrOps /\ Top("main").pc = "lookup"
    /\ IF Tracked(Top("main").a)
       THEN /\ Call("main", "ret", MgrFrame(Target(Top("main").fn), "chk",
                                            Top("main").a, Top("main").x))
            /\ res' = res
       ELSE Raise("main", "KeyError", Top("main").a)
    /\ UNCHANGED <<cfgVars, regVars, objVars, osVars, timeVars, bgVars, histVars, loc, calls>>

\* ... and what the method returned is returned.
FwdReturn ==
    /\ Busy("main") /\ Top("main").fn \in MgrOps /\ Top("main").pc = "ret"
    /\ Return("main", res["main"].val)
    /\ UNCHANGED <<cfgVars, regVars, objVars, osVars, timeVars, bgVars, histVars, loc, calls>>

FwdStep == FwdLookup \/ FwdReturn

\* --- the methods of a tracked Process (statements as in Process above)
PAt(fn, pc) == At("main", fn, pc)
Entry == procs[Top("main").a]
Kid == kids[Top("main").a]
SetEntry(e) == procs' = [procs EXCEPT ![Top("main").a] = e]
SetKid(k) == kids' = [kids EXCEPT ![Top("main").a] = k]

\* A signal sent with os.kill: to which process id, which signal, and the
\* OS state of the child the id was given to.
Sent(id, sig) == [id |-> id, sig |-> sig, st |-> kids[id].st]

\* kill(): if self._exitstatus is not None: raise OSError(errno.ECHILD, ...)
PKillCheck ==
    /\ PAt("p_kill", "chk")
    /\ IF Entry.exitstatus # NoneV THEN Raise("main", "OSError", ECHILD)
                                   ELSE Goto("main", "oskill") /\ res' = res
    /\ UNCHANGED <<cfgVars, regVars, objVars, osVars, timeVars, bgVars, histVars, loc, calls>>

\* kill(): os.kill(self.pid(), signal)
PKillOs ==
    /\ PAt("p_kill", "oskill")
    /\ \/ /\ Kid.st # "reaped"
          /\ SetKid([Kid EXCEPT !.pend = IF Kid.st = "running"
                                         THEN @ \cup {Top("main").x} ELSE @])
          /\ mlog' = [mlog EXCEPT !.sent = Append(@, Sent(Top("main").a, Top("main").x))]
          /\ Return("main", NoneV)
       \/ /\ Kid.st = "reaped"
          /\ Raise("main", "OSError", ESRCH)
          /\ UNCHANGED <<kids, mlog>>
       \/ /\ Kid.st = "reaped"
          /\ mlog' = [mlog EXCEPT !.sent = Append(@, Sent(Top("main").a, Top("main").x))]
          /\ Return("main", NoneV)
          /\ kids' = kids
    /\ UNCHANGED <<cfgVars, objVars, osVars, timeVars, bgVars, histVars, loc, calls,
                   last_id, procs, keys>>

\* wait(): if self._exitstatus is not None: return self._exitstatus
PWaitCheck ==
    /\ PAt("p_wait", "chk")
    /\ IF Entry.exitstatus # NoneV THEN Return("main", Entry.exitstatus)
                                   ELSE Goto("main", "waitpid") /\ res' = res
    /\ UNCHANGED <<cfgVars, regVars, objVars, osVars, timeVars, bgVars, histVars, loc, calls>>

\* wait(): pid,exitstatus = os.waitpid(self.pid(), flags)
PWaitPid ==
    /\ PAt("p_wait", "waitpid")
    /\ \/ /\ Kid.st = "zombie"
          /\ SetKid([Kid EXCEPT !.st = "reaped"])
          /\ stack' = [stack EXCEPT !["main"] =
                          SetTop(@, [Top("main") EXCEPT !.pc = "pidchk", !.y = 1, !.v = Kid.status])]
          /\ res' = res
       \/ /\ Kid.st = "running" /\ Top("main").x = WNOHANG
          /\ kids' = kids
          /\ stack' = [stack EXCEPT !["main"] =
                          SetTop(@, [Top("main") EXCEPT !.pc = "pidchk", !.y = 0, !.v = 0])]
          /\ res' = res
       \/ /\ Kid.st = "reaped"
          /\ kids' = kids
          /\ Raise("main", "OSError", ECHILD)
    /\ UNCHANGED <<cfgVars, objVars, osVars, timeVars, bgVars, histVars, loc, calls,
                   last_id, procs, keys, mlog>>

\* wait(): if pid == 0: return None
PWaitPidCheck ==
    /\ PAt("p_wait", "pidchk")
    /\ IF StillRunning(Top("main").y) THEN Return("main", NoneV)
                                      ELSE Goto("main", "wif") /\ res' = res
    /\ UNCHANGED <<cfgVars, regVars, objVars, osVars, timeVars, bgVars, histVars, loc, calls>>

\* wait(): if os.WIFEXITED(exitstatus) or os.WIFSIGNALED(exitstatus):
\*     self._exitstatus = exitstatus
PWaitCache ==
    /\ PAt("p_wait", "wif")
    /\ IF WIFEXITED(Top("main").v) \/ WIFSIGNALED(Top("main").v)
       THEN SetEntry([Entry EXCEPT !.exitstatus = Top("main").v])
       ELSE procs' = procs
    /\ Goto("main", "ret")
    /\ UNCHANGED <<cfgVars, objVars, osVars, timeVars, bgVars, histVars, res, loc, calls,
                   last_id, kids, keys, mlog>>

\* wait(): the input is closed and the reader threads are joined (the child
\* is dead: its pipes are at end of stream); return exitstatus
PWaitReturn ==
    /\ PAt("p_wait", "ret")
    /\ Return("main", Top("main").v)
    /\ UNCHANGED <<cfgVars, regVars, objVars, osVars, timeVars, bgVars, histVars, loc, calls>>

\* The wait status a child ends with when terminate() is called on it.
EndStatus(k) == IF k.st = "running" THEN {0, SIGTERM, SIGKILL} ELSE {k.status}

\* The exceptions terminate() can end with: the OSError of kill() or
\* os.waitpid, and the SigAlarm of a with_timeout whose alarm expired in its
\* finally clause.
TermExcs == {"OSError", "SigAlarm"}

\* terminate() as a whole, by the ways it can end: the child is dead and its
\* exit record collected; the call has returned the status it cached, or has
\* raised with the status cached, or has raised with the status lost.
PTerminate ==
    /\ PAt("p_terminate", "chk")
    /\ \E st \in EndStatus(Kid) :
          /\ SetKid([st |-> "reaped", status |-> st, pend |-> {}])
          /\ \/ /\ Entry.exitstatus \in {NoneV, st}
                /\ SetEntry([Entry EXCEPT !.exitstatus = st])
                /\ Return("main", st)
             \/ /\ Entry.exitstatus \in {NoneV, st}
                /\ SetEntry([Entry EXCEPT !.exitstatus = st])
                /\ \E e \in TermExcs : Raise("main", e, ECHILD)
             \/ /\ Entry.exitstatus = NoneV
                /\ procs' = procs
                /\ \E e \in TermExcs : Raise("main", e, ESRCH)
    /\ UNCHANGED <<cfgVars, objVars, osVars, timeVars, bgVars, histVars, loc, calls,
                   last_id, keys, mlog>>

\* write(), closeinput(), read(), readerr(), readboth(): they return, and
\* leave _exitstatus and the child's OS state alone.
PData ==
    /\ PAt("p_data", "chk")
    /\ Return("main", 0)
    /\ UNCHANGED <<cfgVars, regVars, objVars, osVars, timeVars, bgVars, histVars, loc, calls>>

PStep ==
    \/ PKillCheck \/ PKillOs
    \/ PWaitCheck \/ PWaitPid \/ PWaitPidCheck \/ PWaitCache \/ PWaitReturn
    \/ PTerminate \/ PData

\* A child started by the manager exits by itself, or dies of a signal.
KidExit(id) ==
    /\ id \in DOMAIN kids /\ kids[id].st = "running"
    /\ \E code \in ExitCodes :
          kids' = [kids EXCEPT ![id] = [st |-> "zombie", status |-> code * 256, pend |-> {}]]
    /\ UNCHANGED <<cfgVars, objVars, osVars, timeVars, callVars, bgVars, histVars,
                   last_id, procs, keys, mlog>>

KidSignalled(id) ==
    /\ id \in DOMAIN kids /\ kids[id].st = "running"
    /\ \E sig \in kids[id].pend :
          kids' = [kids EXCEPT ![id] = [st |-> "zombie", status |-> sig, pend |-> {}]]
    /\ UNCHANGED <<cfgVars, objVars, osVars, timeVars, callVars, bgVars, histVars,
                   last_id, procs, keys, mlog>>

\* --- reap and reapall
\* if self.wait(procid, os.WNOHANG) is None: ...
ReapPoll ==
    /\ MgrAt("reap", "poll")
    /\ Call("main", "polled", MgrFrame("m_wait", "lookup", Top("main").a, WNOHANG))
    /\ UNCHANGED <<cfgVars, regVars, objVars, osVars, timeVars, bgVars, histVars, res, loc, calls>>

\* A test that takes any answer of the poll for "still running".
ReapFoundRunningBroken(val) == TRUE

\* reap()'s test "self.wait(procid, os.WNOHANG) is None"
ReapFoundRunning(val) == val = NoneV

ReapPolled ==
    /\ MgrAt("reap", "polled")
    /\ Goto("main", IF ReapFoundRunning(res["main"].val) THEN "kill" ELSE "wait")
    /\ UNCHANGED <<cfgVars, regVars, objVars, osVars, timeVars, bgVars, histVars, res, loc, calls>>

\* self.kill(procid, signal.SIGKILL)
ReapKill ==
    /\ MgrAt("reap", "kill")
    /\ Call("main", "wait", MgrFrame("m_kill", "lookup", Top("main").a, SIGKILL))
    /\ UNCHANGED <<cfgVars, regVars, objVars, osVars, timeVars, bgVars, histVars, res, loc, calls>>

\* self.wait(procid)
ReapWait ==
    /\ MgrAt("reap", "wait")
    /\ Call("main", "del", MgrFrame("m_wait", "lookup", Top("main").a, 0))
    /\ UNCHANGED <<cfgVars, regVars, objVars, osVars, timeVars, bgVars, histVars, res, loc, calls>>

\* del self.__procs[procid]; the Process object, no longer referenced, is
\* disposed of: __del__ sends SIGKILL if its _exitstatus is None.
ReapDel ==
    /\ MgrAt("reap", "del")
    /\ IF Tracked(Top("main").a)
       THEN /\ procs' = MapDel(procs, Top("main").a)
            /\ mlog' = [mlog EXCEPT
                  !.deleted = Append(@, Top("main").a),
                  !.sent = IF Entry.exitstatus = NoneV
                           THEN Append(@, Sent(Top("main").a, SIGKILL)) ELSE @]
            /\ Return("main", NoneV)
       ELSE /\ Raise("main", "KeyError", Top("main").a)
            /\ UNCHANGED <<procs, mlog>>
    /\ UNCHANGED <<cfgVars, objVars, osVars, timeVars, bgVars, histVars, loc, calls,
                   last_id, kids, keys>>

ReapStep == ReapPoll \/ ReapPolled \/ ReapKill \/ ReapWait \/ ReapDel

RECURSIVE Orders(_)
\* The orders in which a dictionary may list a set of keys.
Orders(S) ==
    IF S = {} THEN {<<>>}
    ELSE UNION {{<<k>> \o q : q \in Orders(S \ {k})} : k \in S}

\* A list of every id the manager ever started.
KeyListBroken == Orders(DOMAIN kids)

\* The list reapall() iterates over: self.__procs.keys(), a copy of the keys.
KeyList == Orders(DOMAIN procs)

\* for procid in self.__procs.keys(): the list is built
ReapallKeys ==
    /\ MgrAt("reapall", "keys")
    /\ keys' \in KeyList
    /\ Goto("main", "loop")
    /\ UNCHANGED <<cfgVars, objVars, osVars, timeVars, bgVars, histVars, res, loc, calls,
                   last_id, procs, kids, mlog>>

\* ... self.reap(procid) for the next key of the list; the loop over
ReapallLoop ==
    /\ MgrAt("reapall", "loop")
    /\ IF keys = <<>>
       THEN Return("main", NoneV) /\ keys' = keys
       ELSE /\ Call("main", "loop", Frame("reap", "poll", Head(keys)))
            /\ keys' = Tail(keys)
            /\ res' = res
    /\ UNCHANGED <<cfgVars, objVars, osVars, timeVars, bgVars, histVars, loc, calls,
                   last_id, procs, kids, mlog>>

ReapallStep == ReapallKeys \/ ReapallLoop

\* ------------------------------------------------------------ specifications
Readers == Reader("out") \/ Reader("err")

\* The read path: two callers read the output of a child that writes and
\* exits by itself.
InitRead == Init /\ ~hasStdin /\ kind = "plain" /\ outN = OutLen /\ errN = ErrLen

NextRead ==
    \/ ChildEmitOut \/ ChildEmitErr \/ ChildExit
    \/ Readers
    \/ \E t \in Callers, fn \in ReadFns : StartRead(t, fn)
    \/ \E t \in Callers : ReadStep(t)

SpecRead == InitRead /\ [][NextRead]_vars

\* The input path: the callers write to and close the input of the child.
InitIn == Init /\ ~hasStdout /\ ~hasStderr /\ kind = "plain" /\ outN = 0 /\ errN = 0

NextIn ==
    \/ ChildExit
    \/ Feeder
    \/ \E d \in Chunks : StartWrite("main", d)
    \/ \E t \in Callers : StartCloseinput(t)
    \/ \E t \in Callers : WriteStep(t) \/ CloseStep(t)

SpecIn == InitIn /\ [][NextIn]_vars

\* The control path: the main thread waits for, signals and terminates the
\* child, and reads its output.
InitCtl == Init /\ hasStdout = hasStderr /\ outN = 1 /\ errN = 0

Next ==
    \/ ChildEmitOut \/ ChildExit \/ ChildSignalled
    \/ Readers \/ FeederIdle
    \/ \E g \in 1..MaxGrace : StartTerminate(g)
    \/ \E fl \in {0, WNOHANG} : StartWait("main", fl)
    \/ \E sig \in {SIGTERM, SIGKILL} : StartKill("main", sig)
    \/ StartRead("main", "readboth")
    \/ ReadStep("main") \/ CloseStep("main") \/ KillStep("main") \/ WaitStep("main")
    \/ WtStep \/ TermStep \/ Tick \/ AlarmDeliver

Spec == InitCtl /\ [][Next]_vars

\* Input and output together: the main thread writes to, closes the input
\* of and reads from a child that is fed by the feeder and read by the
\* readers.
InitIO ==
    Init /\ hasStdin /\ hasStdout /\ hasStderr /\ kind = "plain" /\ outN = 1 /\ errN = 1

NextIO ==
    \/ ChildEmitOut \/ ChildEmitErr \/ ChildExit
    \/ Readers \/ Feeder
    \/ \E d \in Chunks : StartWrite("main", d)
    \/ StartCloseinput("main")
    \/ \E fn \in ReadFns : StartRead("main", fn)
    \/ WriteStep("main") \/ CloseStep("main") \/ ReadStep("main")

SpecIO == InitIO /\ [][NextIO]_vars

\* The same under fair scheduling of the threads that are not inside a
\* blocking system call: the calling thread goes on whenever it can, and a
\* reader or the feeder that holds the lock goes on to release it.  Nothing
\* is assumed of os.read, drain.write or the child.
FairIO ==
    /\ SpecIO
    /\ WF_vars(WriteStep("main") \/ CloseStep("main") \/ ReadStep("main"))
    /\ \A s \in {"out", "err"} : WF_vars(ReaderAppend(s))
    /\ WF_vars(FeederCheck)

\* Two callers wait for the same child, which writes a byte and exits.
InitWait2 ==
    Init /\ ~hasStdin /\ hasStdout /\ hasStderr /\ kind = "plain" /\ outN = 1 /\ errN = 0

NextWait2 ==
    \/ ChildEmitOut \/ ChildExit
    \/ Readers
    \/ \E t \in Callers, fl \in {0, WNOHANG} : StartWait(t, fl)
    \/ \E t \in Callers : WaitStep(t)

SpecWait2 == InitWait2 /\ [][NextWait2]_vars

\* One thread waits for the child while another sends it signals.
InitKill2 ==
    Init /\ ~hasStdin /\ ~hasStdout /\ ~hasStderr /\ outN = 0 /\ errN = 0

NextKill2 ==
    \/ ChildExit \/ ChildSignalled
    \/ \E fl \in {0, WNOHANG} : StartWait("main", fl)
    \/ \E sig \in {SIGTERM, SIGKILL} : StartKill("aux", sig)
    \/ WaitStep("main") \/ KillStep("aux")

SpecKill2 == InitKill2 /\ [][NextKill2]_vars

\* Nested with_timeout calls around time.sleep; no process is involved.
InitNest ==
    Init /\ ~hasStdin /\ ~hasStdout /\ ~hasStderr /\ kind = "plain" /\ outN = 0 /\ errN = 0

NextNest ==
    \/ \E t1 \in 1..MaxTimeout, t2 \in 1..MaxTimeout, d \in 0..MaxSleep : StartNested(t1, t2, d)
    \/ WtStep \/ SleepRun \/ Tick \/ AlarmDeliver

SpecNest == InitNest /\ [][NextNest]_vars

\* The ProcessManager: one thread starts processes, operates on them by id
\* (ids in use, reaped or never issued) and reaps them.
InitReg == Init /\ hasStdin /\ hasStdout /\ hasStderr /\ kind = "plain"
                /\ outN = 0 /\ errN = 0

NextReg ==
    \/ MgrStart
    \/ \E id \in Ids :
          \/ \E fn \in MgrOps \ {"m_kill", "m_wait"} : MgrCall(fn, id, 0)
          \/ \E sig \in {SIGTERM, SIGKILL} : MgrCall("m_kill", id, sig)
          \/ \E fl \in {0, WNOHANG} : MgrCall("m_wait", id, fl)
          \/ MgrReap(id)
    \/ MgrReapall
    \/ StartStep \/ FwdStep \/ PStep \/ ReapStep \/ ReapallStep
    \/ \E id \in Ids : KidExit(id) \/ KidSignalled(id)

SpecReg == InitReg /\ [][NextReg]_vars

\* ---------------------------------------------------------------- properties
\* The bytes the child has written to a stream so far.
Emitted(s) ==
    IF s = "out" THEN [i \in 1..outPos |-> OutByte(i)]
                 ELSE [i \in 1..errPos |-> ErrByte(i)]

\* The main thread's last top-level wait() call returned an exit status.
WaitGave ==
    Returned("main", "wait") /\ res["main"].val # NoneV

\* C1: once a wait() call has returned an exit status, exitstatus keeps that
\* value, no later wait() performs another OS-level wait, and every wait()
\* call completed from then on returns that same status.
ExitStatusIsStable ==
    /\ hist.waited # NoneV => exitstatus = hist.waited
    /\ ~hist.rewait
    /\ (hist.waited # NoneV /\ Done("main", "wait")) =>
           Returned("main", "wait") /\ res["main"].val = hist.waited

\* Two wait() calls have returned the status of a child whose exit record
\* the first of them collected.
SecondWaitReturned ==
    /\ hist.waits >= 2 /\ proc = "reaped"
    /\ Returned("main", "wait") /\ res["main"].val = 0

\* C2: with both output streams enabled, when wait() has returned an exit
\* status both reader threads have ended, and what read() / readerr() have
\* returned so far followed by what they would return now is everything the
\* child wrote to that stream.
WaitMeansOutputComplete ==
    (hasStdout /\ hasStderr /\ WaitGave) =>
        /\ Joined("out") /\ Joined("err")
        /\ out_returned \o Flatten(collected_outdata) = Emitted("out")
        /\ err_returned \o Flatten(collected_errdata) = Emitted("err")

\* C5: a terminate() call always ends by returning the exit status of the
\* child (it never ends by raising).
TerminateReturnsStatus ==
    Done("main", "terminate") =>
        /\ res["main"].kind = "ret"
        /\ res["main"].val = childStatus
        /\ proc # "running"

\* The events of a terminate() call that runs through every stage.
FullEscalation ==
    IF hasStdin
    THEN <<"close", "guard", "timeout", "term", "guard", "timeout", "kill", "wait">>
    ELSE <<"term", "guard", "timeout", "kill", "wait">>

\* C6: the events of a terminate() call are a prefix of: close the input
\* (only with an input pipe), guarded wait, Timeout, SIGTERM, guarded wait,
\* Timeout, SIGKILL, unguarded wait.  A signal is sent only after the
\* Timeout of the stage before it, and no stage happens twice.
EscalationOrder ==
    IsPrefix(tlog, FullEscalation)

\* A terminate() call that went through all three stages has returned.
EscalatedToKill ==
    hasStdin /\ tlog = FullEscalation /\ Returned("main", "terminate")

\* C7: terminate(g) called on a running child that neither exits on end of
\* input nor dies of SIGTERM returns after g seconds per guarded stage (2 * g
\* with an input pipe), the child is then dead of SIGKILL and collected, and
\* a wait() after it reports the signal-terminated status.
StubbornChildIsKilled ==
    (kind = "stubborn" /\ hist.alive) =>
        /\ Done("main", "terminate") =>
              /\ res["main"].kind = "ret" /\ res["main"].val = SIGKILL
              /\ exitstatus = SIGKILL /\ proc = "reaped"
              /\ clock = (IF hasStdin THEN 2 ELSE 1) * hist.grace
              /\ clock <= 2 * hist.grace
        /\ (Done("main", "wait") /\ hist.terms > 0) =>
              /\ res["main"].kind = "ret" /\ res["main"].val = SIGKILL
              /\ WIFSIGNALED(res["main"].val)

\* After terminate(2) on such a child with an input pipe, wait() has returned.
WaitAfterKill ==
    /\ kind = "stubborn" /\ hist.alive /\ hasStdin /\ hist.terms > 0
    /\ Returned("main", "wait") /\ clock = 4

\* The main thread executes the statement at pc of kill().
KillStmt(pc) ==
    At("main", "kill", pc) /\ Runnable("main") /\ stack'["main"] # stack["main"]

\* C10: kill(sig) with exitstatus known raises OSError(ECHILD) to its caller
\* and changes nothing else; with exitstatus unknown it goes on to os.kill,
\* which delivers sig to the child process and does not fail.
KillDeliversOrFails ==
    [][/\ KillStmt("chk") =>
            IF exitstatus # NoneV
            THEN /\ stack'["main"] = <<>>
                 /\ res'["main"].kind = "raise" /\ res'["main"].exc = "OSError"
                 /\ res'["main"].val = ECHILD
                 /\ UNCHANGED <<objVars, osVars>>
            ELSE Top("main")' = [Top("main") EXCEPT !.pc = "oskill"]
       /\ KillStmt("oskill") =>
            /\ proc # "reaped"
            /\ sigPend' = Delivered(Top("main").a)
            /\ res'["main"].kind # "raise"]_vars

\* The bytes the reader thread of a stream has taken out of its pipe.
Consumed(s) ==
    SubSeq(Emitted(s), 1, Len(Emitted(s)) - Len(Pipe(s)))

\* No read call is under way and no reader holds bytes it has not appended.
ReadsQuiescent ==
    /\ \A t \in Callers : ~Busy(t)
    /\ rdata["out"] = <<>> /\ rdata["err"] = <<>>

\* C3 as claimed: the pieces read() / readboth() returned, concatenated in
\* the order in which the calls completed and followed by the buffer, are
\* the bytes taken from the stream so far, in stream order; the same for
\* readerr() / readboth() and standard error.
ReturnOrderIsStreamOrder ==
    ReadsQuiescent =>
        /\ out_returned \o Flatten(collected_outdata) = Consumed("out")
        /\ err_returned \o Flatten(collected_errdata) = Consumed("err")

\* The piece a read call under way has cleared out of a buffer and not yet
\* returned.
HeldOut(t) == IF At(t, Top(t).fn, "del_o") THEN <<>> ELSE loc[t].o
HeldErr(t) == IF At(t, Top(t).fn, "del_e") THEN <<>> ELSE loc[t].e

Range(q) == {q[i] : i \in 1..Len(q)}

\* Every byte taken from a stream is in the reader's hand, in the buffer, or
\* in exactly one piece cleared out of the buffer; the pieces in the order
\* they were cleared, then the buffer, then the reader's hand, are the
\* stream; every cleared piece has been returned, or is held by the one call
\* that cleared it.
ExactlyOnceInStreamOrder ==
    /\ out_taken \o Flatten(collected_outdata) \o rdata["out"] = Consumed("out")
    /\ err_taken \o Flatten(collected_errdata) \o rdata["err"] = Consumed("err")
    /\ Range(out_taken) = Range(out_returned) \cup UNION {Range(HeldOut(t)) : t \in Callers}
    /\ Range(err_taken) = Range(err_returned) \cup UNION {Range(HeldErr(t)) : t \in Callers}
    /\ Len(out_taken) = Len(out_returned) + Len(HeldOut("main")) + Len(HeldOut("aux"))
    /\ Len(err_taken) = Len(err_returned) + Len(HeldErr("main")) + Len(HeldErr("aux"))

\* A buffer changes only in the hands of the holder of the mutex: its reader
\* appends to it, a read call clears it.
BufferStep(old, new, s) ==
    old # new =>
        \/ lock = s /\ new = Append(old, rdata[s])
        \/ lock \in Callers /\ Busy(lock) /\ Top(lock).fn \in ReadFns /\ new = <<>>

\* C3: under any interleaving of the readers with the read calls of two
\* callers no byte is lost, duplicated or reordered, the order of the
\* returned pieces being the order in which the calls cleared the buffer
\* under the mutex; the buffers change only under the mutex.
ReadsDeliverExactlyOnce ==
    [][/\ ExactlyOnceInStreamOrder'
       /\ BufferStep(collected_outdata, collected_outdata', "out")
       /\ BufferStep(collected_errdata, collected_errdata', "err")]_vars

\* Everything the child wrote has been returned, over several calls.
AllOutputReturned ==
    /\ ReadsQuiescent
    /\ outPos = OutLen /\ out_returned = Emitted("out")
    /\ errPos = ErrLen /\ err_returned = Emitted("err")
    /\ calls["main"] > 0 /\ calls["aux"] > 0

\* The chunk the feeder has dequeued and not yet written.
InHand == IF feeder = "write" \/ (feeder = "crashed" /\ fdata # 0) THEN <<fdata>> ELSE <<>>

\* The chunk of a write() call that has not yet appended it.
NotAppended ==
    IF Busy("main") /\ Top("main").fn = "write" /\ Top("main").pc \in {"chk", "acq", "append"}
    THEN <<Top("main").a>> ELSE <<>>

\* The chunks passed to write(), in call order, are what the child has been
\* fed, then the feeder's chunk, then the queue, then the chunk on its way.
InputInOrder ==
    hasStdin => written = fed \o InHand \o pending_input \o NotAppended

\* C4: with an input pipe, the feeder writes the chunks passed to write() in
\* call order, each once; it closes the child's input only when the queue is
\* empty and _quit is set, the child having then been fed every chunk that
\* was queued before.
FeederWritesInOrderThenCloses ==
    [][/\ InputInOrder'
       /\ (stdinOpen /\ ~stdinOpen') =>
              /\ pending_input = <<>> /\ quit
              /\ fed' \o NotAppended' = written']_vars

\* write(1); write(2); closeinput(): the child was fed 1, 2 and then saw its
\* input close.
FedAllThenClosed ==
    /\ hasStdin /\ ~stdinOpen /\ proc = "running"
    /\ Len(written) = 2 /\ fed = written

\* The main thread executes the statement at pc of write().
WriteStmt(pc) ==
    At("main", "write", pc) /\ stack'["main"] # stack["main"]

\* C8: write() on a process without input pipe raises ValueError and leaves
\* the queue, the semaphore and _quit alone; with an input pipe it appends
\* its chunk at the tail of the queue and releases the semaphore once, both
\* while it holds the mutex without a break (meanwhile nobody else touches
\* the queue, and the semaphore can only be taken by the feeder).
WriteChecksThenQueues ==
    [][/\ (WriteStmt("chk") /\ ~hasStdin) =>
              /\ stack'["main"] = <<>>
              /\ res'["main"].kind = "raise" /\ res'["main"].exc = "ValueError"
              /\ UNCHANGED <<pending_input, inputsem, quit, lock>>
       /\ (WriteStmt("chk") /\ hasStdin) =>
              /\ Top("main")' = [Top("main") EXCEPT !.pc = "acq"]
              /\ UNCHANGED <<pending_input, inputsem, quit, lock>>
       /\ WriteStmt("acq") =>
              /\ lock = "free" /\ lock' = "main"
              /\ Top("main")' = [Top("main") EXCEPT !.pc = "append"]
       /\ WriteStmt("append") =>
              /\ pending_input' = Append(pending_input, Top("main").a)
              /\ inputsem' = inputsem
              /\ lock = "main" /\ lock' = "main"
              /\ Top("main")' = [Top("main") EXCEPT !.pc = "sem"]
       /\ WriteStmt("sem") =>
              /\ inputsem' = inputsem + 1
              /\ pending_input' = pending_input
              /\ lock = "main" /\ lock' = "main"
              /\ Top("main")' = [Top("main") EXCEPT !.pc = "rel"]
       /\ WriteStmt("rel") =>
              /\ lock' = "free" /\ stack'["main"] = <<>>
              /\ res'["main"].kind = "ret"
              /\ UNCHANGED <<pending_input, inputsem, quit>>
       /\ (Busy("main") /\ Top("main").fn = "write"
              /\ stack'["main"] = stack["main"] /\ Top("main").pc \in {"append", "sem", "rel"}) =>
              UNCHANGED <<pending_input, quit, lock>> /\ inputsem' <= inputsem]_vars

\* A write() on a process without input pipe has raised ValueError.
WriteRefused ==
    ~hasStdin /\ Raised("main", "write", "ValueError") /\ pending_input = <<>>

\* C9 as claimed: closeinput() on a process without input pipe raises
\* ValueError and changes no state.
CloseinputRefused ==
    ~hasStdin =>
        /\ \A t \in Callers : Done(t, "closeinput") => Raised(t, "closeinput", "ValueError")
        /\ ~quit /\ inputsem = 0

\* C9: closeinput() on a process without input pipe does not fail: every
\* call returns, having set _quit and released the semaphore once (there is
\* no feeder to take it), and nothing else of the object changes.
CloseinputWithoutPipeSucceeds ==
    ~hasStdin =>
        /\ \A t \in Callers : Done(t, "closeinput") =>
               Returned(t, "closeinput") /\ quit /\ lock # t
        /\ inputsem = hist.closes
        /\ hist.closes > 0 => quit
        /\ pending_input = <<>> /\ fed = <<>> /\ ~stdinOpen /\ feeder = "off"

\* A closeinput() on a process without input pipe has returned.
ClosedWithoutPipe ==
    ~hasStdin /\ Returned("main", "closeinput") /\ quit /\ inputsem = 1

\* The main thread executes the statement at pc of a top-level
\* wait(os.WNOHANG) call.
PollStmt(pc) ==
    /\ Len(stack["main"]) = 1 /\ At("main", "wait", pc) /\ Top("main").a = WNOHANG
    /\ stack'["main"] # stack["main"]

\* C11: a wait(os.WNOHANG) that finds the child still running returns None
\* and changes nothing: _exitstatus stays None, _quit, the queue, the
\* semaphore and both buffers are untouched, the input is not closed and no
\* reader thread is joined (the call returns from its "pid == 0" test).
PollHasNoEffect ==
    [][/\ (PollStmt("chk") /\ exitstatus = NoneV) =>
              /\ Top("main")' = [Top("main") EXCEPT !.pc = "waitpid"]
              /\ UNCHANGED <<objVars, osVars, bgVars>>
       /\ (PollStmt("waitpid") /\ proc = "running") =>
              /\ Top("main")'.pc = "pidchk" /\ Top("main")'.x = 0
              /\ exitstatus = NoneV
              /\ UNCHANGED <<objVars, osVars, bgVars>>
       /\ (PollStmt("pidchk") /\ Top("main").x = 0) =>
              /\ stack'["main"] = <<>>
              /\ res'["main"] = [op |-> "wait", kind |-> "ret", exc |-> "", val |-> NoneV]
              /\ exitstatus = NoneV
              /\ UNCHANGED <<objVars, osVars, bgVars>>]_vars

\* A wait(os.WNOHANG) on a running child with an input pipe has returned
\* None.
PolledRunningChild ==
    /\ Returned("main", "wait") /\ res["main"].val = NoneV
    /\ proc = "running" /\ hasStdin /\ stdinOpen /\ ~quit /\ exitstatus = NoneV

\* The ways terminate() ends in the object model, which PTerminate takes
\* over: the child dead and collected, the status returned and cached, or an
\* exception with the status cached or lost.
TerminateEnds ==
    Done("main", "terminate") =>
        /\ proc = "reaped" /\ exitstatus \in {NoneV, childStatus}
        /\ res["main"].kind = "ret" =>
               res["main"].val = childStatus /\ exitstatus = childStatus
        /\ res["main"].kind = "raise" => res["main"].exc \in TermExcs

\* The ids start() has returned begin at 1 and increase strictly.
IssuedIncreasing ==
    \A i \in 1..Len(mlog.issued) :
        IF i = 1 THEN mlog.issued[i] = 1 ELSE mlog.issued[i] > mlog.issued[i - 1]

NeverIssued(id) == id > last_id
Reaped(id) == \E i \in 1..Len(mlog.deleted) : mlog.deleted[i] = id

\* The main thread is about to look id up for a ProcessManager method, and
\* acts.
LookupOf(id) ==
    /\ Busy("main") /\ Top("main").fn \in MgrOps /\ Top("main").pc = "lookup"
    /\ Top("main").a = id
    /\ stack'["main"] # stack["main"]

\* C13: kill, terminate, write, closeinput, read, readerr, readboth, wait
\* and reap, called with an id that was never issued or has been reaped,
\* end with KeyError for that id; nothing of the manager or of any process
\* changes (reap gets as far as its first self.wait(procid, os.WNOHANG)).
UnknownIdIsRefused ==
    [][\A id \in Ids : (NeverIssued(id) \/ Reaped(id)) =>
          /\ id \notin DOMAIN procs
          /\ LookupOf(id) =>
                /\ stack'["main"] = <<>>
                /\ res'["main"] = [op |-> stack["main"][1].fn, kind |-> "raise",
                                   exc |-> "KeyError", val |-> id]
                /\ UNCHANGED regVars
          /\ (MgrAt("reap", "poll") /\ Top("main").a = id
                 /\ stack'["main"] # stack["main"]) =>
                /\ Top("main")'.fn = "m_wait" /\ Top("main")'.pc = "lookup"
                /\ Top("main")'.a = id /\ Top("main")'.x = WNOHANG
                /\ UNCHANGED regVars]_vars

\* reap() of an id that was reaped before has ended with KeyError, another
\* process still being tracked.
ReapedTwice ==
    /\ Raised("main", "reap", "KeyError") /\ Reaped(res["main"].val)
    /\ procs # EmptyMap

\* reap(id) is the call the main thread is in (called directly, not from
\* reapall()).
InReap(id) ==
    /\ Busy("main") /\ stack["main"][1].fn = "reap" /\ stack["main"][1].a = id

\* C14: in reap(id) of a tracked id, SIGKILL is sent exactly when the poll
\* self.wait(procid, os.WNOHANG) returned None, and by nothing else (not by
\* __del__ either); the entry is deleted only after the blocking wait has
\* collected the exit record; the call returns in the step that deletes
\* the entry; the other entries and __last_id are untouched throughout.
ReapKillsOnlyIfRunningThenRemoves ==
    [][\A id \in Ids : InReap(id) =>
          /\ last_id' = last_id
          /\ \A j \in DOMAIN procs \ {id} : j \in DOMAIN procs' /\ procs'[j] = procs[j]
          /\ (MgrAt("reap", "polled") /\ stack'["main"] # stack["main"]) =>
                /\ res["main"].op = "m_wait"
                /\ Top("main")'.pc = "kill" <=> res["main"].val = NoneV
                /\ Top("main")'.pc = "wait" <=> res["main"].val # NoneV
          /\ mlog'.sent # mlog.sent =>
                /\ PAt("p_kill", "oskill") /\ stack["main"][1].pc = "wait"
                /\ mlog'.sent = Append(mlog.sent, Sent(id, SIGKILL))
          /\ (id \in DOMAIN procs /\ id \notin DOMAIN procs') =>
                /\ MgrAt("reap", "del")
                /\ kids[id].st = "reaped" /\ procs[id].exitstatus = kids[id].status
                /\ procs' = MapDel(procs, id)
          /\ (stack'["main"] = <<>> /\ res'["main"].kind = "ret") =>
                /\ id \in DOMAIN procs /\ id \notin DOMAIN procs'
                /\ kids'[id].st = "reaped"]_vars

\* reap() has returned after it killed a child it found running; another
\* process is still tracked.
ReapedRunningChild ==
    /\ Returned("main", "reap")
    /\ mlog.deleted # <<>> /\ procs # EmptyMap
    /\ \E i \in 1..Len(mlog.sent) :
          /\ mlog.sent[i] = [id |-> mlog.deleted[Len(mlog.deleted)], sig |-> SIGKILL,
                             st |-> "running"]

\* The main thread is in reapall().
InReapall == Busy("main") /\ stack["main"][1].fn = "reapall"

\* The id reapall() is reaping now, if any.
ReapingNow == IF Len(stack["main"]) >= 2 THEN {stack["main"][2].a} ELSE {}

\* C15: reapall() lists the ids tracked when it is called, each once; the
\* list is not changed by the deletions of reap(); the ids not yet visited
\* are still tracked and the id being reaped is not visited again; every
\* deletion is that of the id being reaped, whose exit record is collected;
\* it returns with the list exhausted and __procs empty; __last_id is
\* untouched throughout.
ReapallReapsSnapshotOnce ==
    [][InReapall =>
          /\ last_id' = last_id
          /\ (MgrAt("reapall", "keys") /\ stack'["main"] # stack["main"]) =>
                /\ Range(keys') = DOMAIN procs
                /\ Len(keys') = Cardinality(DOMAIN procs)
                /\ procs' = procs
          /\ ~MgrAt("reapall", "keys") =>
                /\ Range(keys) \subseteq DOMAIN procs
                /\ Range(keys) \cap ReapingNow = {}
                /\ DOMAIN procs \subseteq Range(keys) \cup ReapingNow
                /\ procs' # procs => keys' = keys
                /\ keys' # keys =>
                      /\ MgrAt("reapall", "loop") /\ keys = <<Head(keys)>> \o keys'
                      /\ Top("main")'.fn = "reap" /\ Top("main")'.a = Head(keys)
                /\ \A id \in DOMAIN procs \ DOMAIN procs' :
                      /\ ReapingNow = {id} /\ kids[id].st = "reaped"
                      /\ procs' = MapDel(procs, id)
          /\ (stack'["main"] = <<>> /\ res'["main"].kind = "ret") =>
                /\ MgrAt("reapall", "loop")
                /\ keys = <<>> /\ procs = EmptyMap /\ procs' = EmptyMap]_vars

\* reapall() has returned after it reaped two processes, one of them found
\* running.
ReapedAllOfTwo ==
    /\ Returned("main", "reapall") /\ calls["main"] = 3
    /\ Len(mlog.deleted) = 2 /\ mlog.deleted[1] # mlog.deleted[2]
    /\ procs = EmptyMap /\ last_id = 2
    /\ \E i \in 1..Len(mlog.sent) : mlog.sent[i].st = "running"

\* The main thread is inside a with_timeout() call.
InGuard == \E i \in 1..Len(stack["main"]) : stack["main"][i].fn = "with_timeout"

\* C16: once control has left with_timeout(), by return, by Timeout or by
\* the error of the guarded function, the alarm is disarmed, the SIGALRM
\* handler is the one installed before the call, and the call has not ended
\* with the internal SigAlarm exception.
GuardCleansUpAndHidesSigAlarm ==
    ~InGuard =>
        /\ alarm = 0 /\ ~tripped
        /\ handler = 0
        /\ ~(res["main"].kind = "raise" /\ res["main"].exc = "SigAlarm")

\* A with_timeout activation that found an alarm pending when it was
\* entered: oldalarm seconds were left, oldhandler was installed.
CapturedAlarm(fr) == fr.fn = "with_timeout" /\ fr.pc # "enter" /\ fr.x > 0

\* C17: when a with_timeout call that found an alarm pending ends, the
\* handler of that alarm is installed again and the alarm is armed again,
\* or pending, or being delivered to that handler in this very step: the
\* outer expiration is never lost.
OuterExpirationNeverLost ==
    [][\A i \in 1..Len(stack["main"]) :
          (CapturedAlarm(stack["main"][i]) /\ Len(stack'["main"]) < i) =>
              /\ handler' = stack["main"][i].h
              /\ \/ alarm' > 0
                 \/ tripped'
                 \/ tripped /\ handler = stack["main"][i].h]_vars

\* C18: a reader holds the lock only to append what it has read (so never
\* in os.read), and the feeder only to test and pop the pending list (so
\* never in drain.write, nor waiting in _inputsem.acquire()).
NoBlockingIoUnderLock ==
    /\ \A s \in {"out", "err"} :
          /\ reader[s] = "read" => lock # s
          /\ lock = s <=> reader[s] = "append"
    /\ feeder \in {"sem", "write"} => lock # "feed"
    /\ lock = "feed" <=> feeder = "chk"

\* Both kinds of blocking I/O under way with the lock in other hands: the
\* feeder is writing a chunk to the child while a reader, which has held
\* the lock before, is in os.read again and the main thread holds the lock.
BlockedIoLockElsewhere ==
    /\ feeder = "write" /\ reader["out"] = "read" /\ collected_outdata # <<>>
    /\ lock = "main"

\* C19: every wait() call of either caller ends by returning; a call that
\* returns an exit status returns the status of the child, which is then
\* cached, with both reader threads joined.
ConcurrentWaitsAgree ==
    \A t \in Callers : Done(t, "wait") =>
        /\ res[t].kind = "ret"
        /\ res[t].val # NoneV =>
              /\ res[t].val = childStatus /\ exitstatus = childStatus
              /\ Joined("out") /\ Joined("err")

\* The main thread is in one of the data operations.
InDataOp == Busy("main") /\ stack["main"][1].fn \in ReadFns \cup {"write", "closeinput"}

\* C20: under fair scheduling every write(), closeinput(), read(),
\* readerr() and readboth() call ends, whatever the feeder, the readers and
\* the child do (they may stay in drain.write and os.read for ever).
DataOpsAlwaysEnd == InDataOp ~> ~Busy("main")

\* write() has returned with a chunk still queued, while the feeder is in
\* drain.write with an earlier chunk and both readers are in os.read, the
\* child having produced nothing.
WroteWhileIoBlocked ==
    /\ Returned("main", "write") /\ pending_input # <<>>
    /\ feeder = "write" /\ fed = <<>>
    /\ reader["out"] = "read" /\ reader["err"] = "read"
    /\ outPos = 0 /\ errPos = 0 /\ proc = "running"

\* The feeder thread has ended (by its break, or by an exception).
FeederEnded == feeder \in {"done", "crashed"}

\* C21: once closeinput() has been called (any number of times), a feeder
\* that has ended has closed the child's input, with no chunk left in its
\* hands; _quit is never cleared, the input is never reopened, and a
\* feeder that has ended takes no further step, whatever the semaphore
\* counts.
CloseinputMakesFeederClose ==
    /\ (hasStdin /\ quit /\ FeederEnded) => (~stdinOpen /\ InHand = <<>>)
    /\ (hasStdin /\ ~stdinOpen) => (quit /\ feeder = "done")

\* The feeder has taken a unit of the semaphore and not yet acted on it.
FeederPastSem == feeder \in {"acq", "chk"}

\* C22: the semaphore, with the unit the feeder has taken, never counts
\* more than the queued chunks plus the closeinput() calls made; so when
\* the feeder holds the lock after the semaphore, the queue is non-empty or
\* _quit is set, and the feeder never ends by pending.pop(0) of an empty
\* list (it ends by its break, or by a failed write of a chunk it popped).
FeederNeverPopsEmpty ==
    hasStdin =>
        /\ inputsem + (IF FeederPastSem THEN 1 ELSE 0) <= Len(pending_input) + hist.closes
        /\ hist.closes > 0 => quit
        /\ feeder = "chk" => (pending_input # <<>> \/ quit)
        /\ feeder = "crashed" => fdata # 0

\* After write() and two closeinput() calls the feeder, the chunk fed, holds
\* the lock with the queue empty and a unit of the semaphore to spare.
FeederSeesEmptyQueue ==
    /\ hasStdin /\ feeder = "chk" /\ lock = "feed"
    /\ pending_input = <<>> /\ fed # <<>> /\ hist.closes = 2 /\ inputsem = 1

\* C23: a caller that is in no call (its last call has returned or raised)
\* does not hold the lock, nor does a reader or a feeder that has ended.
LockNotLeftHeld ==
    /\ \A t \in Callers : ~Busy(t) => lock # t
    /\ \A s \in {"out", "err"} : reader[s] = "done" => lock # s
    /\ FeederEnded => lock # "feed"

\* Caller t is inside a wait() call (its own, or one made for it by
\* terminate() and with_timeout()).
InWait(t) == \E i \in 1..Len(stack[t]) : stack[t][i].fn = "wait"

\* C24: once os.waitpid has collected the exit record of the child and no
\* wait() call is under way any more, _exitstatus holds the status
\* collected.
ExitRecordNeverLost ==
    (proc = "reaped" /\ \A t \in Callers : ~InWait(t)) => exitstatus = childStatus

\* C25: no signal has been delivered under the pid of a child whose exit
\* record had been collected, neither by kill() or terminate() on a Process
\* nor by the ProcessManager (kill, reap, disposal of the Process).
NoSignalAfterReaped ==
    /\ ~hist.stray
    /\ \A i \in 1..Len(mlog.sent) : mlog.sent[i].st # "reaped"
====
